---- MODULE Spec2Model ----
(***************************************************************************)
(* Model of the resilient search-and-qualify pipeline of scraper_utils.py: *)
(*   get_candidates        - backend chain SerpAPI -> DuckDuckGo -> Google *)
(*   count_pattern_on_page - page fetch with retry, returns a match count  *)
(*   search_and_filter     - paginated, deduplicating crawl loop           *)
(* One run of search_and_filter is one behaviour.  Every external call     *)
(* (a search provider, requests.get, time.sleep) is one step whose outcome *)
(* is chosen nondeterministically.                                         *)
(***************************************************************************)
EXTENDS Integers, Sequences, FiniteSets, TLC

VARIABLES config, min_occurrences, env, pc, seen, qualifying, num_results,
          candidates, idx, result, raised, rounds, gc, cp, qualifyCalls,
          errored, rich, cancel, unthrottled

vars == <<config, min_occurrences, env, pc, seen, qualifying, num_results,
          candidates, idx, result, raised, rounds, gc, cp, qualifyCalls,
          errored, rich, cancel, unthrottled>>

----------------------------------------------------------------------------
(* Bounds of the model *)

NumUrls == 2
MaxLen == 2
MaxRounds == 3

(* Program constants *)

MAX_RESULTS_CAP == 1000
BACKOFFS == <<10, 30, 60>>
\* JITTER_RANGE = (0.5, 1.0), kept in half seconds so that it stays integral
JITTER_RANGE == <<1, 2>>
ddg_tries == 3
ddg_backoff == 2
page_tries == 3
\* PER_HOST_DELAY = 1.0, in seconds like the backoffs
PER_HOST_DELAY == 1
page_backoff == 3

----------------------------------------------------------------------------
(* Inputs *)

URLS == 1..NumUrls

\* what a backend can hand back as a non-empty list: any order, any repetition
CandidateLists == UNION {[1..n -> URLS] : n \in 1..MaxLen}

TargetCounts == {-1, 0, 1, 2}
ResultsPerPage == {0, 500, 1001}
SleepSecs == {-2, 5}
MinOccurrences == {0, 2}
MatchCounts == {0, 2}

SearchConfig == [target_count : TargetCounts,
                 results_per_page : ResultsPerPage,
                 sleep_sec : SleepSecs]

\* SERPAPI_KEY set and serpapi importable; DDGSEARCH importable; DISABLE_GOOGLE
Environments == [serpapi : BOOLEAN, ddg : BOOLEAN, disable_google : BOOLEAN]

Backends == {"serpapi", "ddg", "google"}

----------------------------------------------------------------------------
(* Helpers *)

Min(a, b) == IF a < b THEN a ELSE b
Max(a, b) == IF a > b THEN a ELSE b
Range(s) == {s[i] : i \in 1..Len(s)}

\* Python's s[:n], negative n included
PyPrefix(s, n) ==
    IF n >= 0 THEN SubSeq(s, 1, Min(n, Len(s)))
    ELSE SubSeq(s, 1, Max(Len(s) + n, 0))

\* _sleep_with_jitter(base): the durations time.sleep may be called with,
\* in half seconds; time.sleep raises ValueError on a negative duration
SleepWithJitter(base) == {2 * base + j : j \in JITTER_RANGE[1]..JITTER_RANGE[2]}

----------------------------------------------------------------------------
(* Call frames *)

GcIdle == [status |-> "idle",
           num_results |-> 0,
           calls |-> [b \in Backends |-> 0],
           rl |-> TRUE,
           last |-> [backend |-> "none", kind |-> "none", urls |-> <<>>],
           backoff |-> ddg_backoff,
           slept |-> <<>>]

CpIdle == [status |-> "idle", url |-> 0, attempt |-> 0, backoff |-> 0,
           same |-> "none", last |-> "none", ret |-> 0, slept |-> <<>>,
           log |-> <<>>]

Init ==
    /\ config \in SearchConfig
    /\ min_occurrences \in MinOccurrences
    /\ env \in Environments
    /\ pc = "while"
    /\ seen = {}
    /\ qualifying = <<>>
    /\ num_results = config.results_per_page
    /\ candidates = <<>>
    /\ idx = 0
    /\ result = <<>>
    /\ raised = "none"
    /\ rounds = 0
    /\ gc = GcIdle
    /\ cp = CpIdle
    /\ qualifyCalls = [u \in URLS |-> 0]
    /\ errored = {}
    /\ rich = TRUE
    /\ cancel = FALSE
    /\ unthrottled = "none"

----------------------------------------------------------------------------
(* Outcomes of the external calls *)

\* one call of a search provider: a list, an empty list, a rate-limit error,
\* another error the adapter catches, an exception of a class it does not catch
SearchOutcomes ==
    {[kind |-> "urls", urls |-> l] : l \in CandidateLists}
    \cup {[kind |-> k, urls |-> <<>>] : k \in {"empty", "ratelimit", "error", "uncaught"}}

\* _ddg_search and the Google loop catch Exception: nothing escapes them
BroadCaughtOutcomes == {o \in SearchOutcomes : o.kind # "uncaught"}

\* one requests.get plus the parse of its response
\* "connection_error" stands for ConnectionError and ChunkedEncodingError,
\* "http_error" for HTTPError and every other RequestException
FetchKinds == {"ok", "retry_status", "timeout", "connection_error",
               "http_error", "decode_error", "uncaught"}

FetchOutcomes ==
    {[kind |-> "ok", count |-> c] : c \in MatchCounts}
    \cup {[kind |-> k, count |-> 0] : k \in FetchKinds \ {"ok"}}

----------------------------------------------------------------------------
(* Decisions of the code *)

\* a one-element list taken for an empty one
Mut_Truthy(list) == Len(list) > 1

\* `if sa:` / `if ddg:` / `if g:` / `if urls:`
Truthy(list) == Len(list) > 0

\* except (SerpApiError, requests.RequestException, ValueError)
SerpapiCaught(kind) == kind \in {"ratelimit", "error"}

\* what _serpapi_search hands to get_candidates for a provider outcome
serpapi_search(o) ==
    IF o.kind \in {"urls", "empty"} THEN [raised |-> FALSE, urls |-> o.urls]
    ELSE IF SerpapiCaught(o.kind) THEN [raised |-> FALSE, urls |-> <<>>]
    ELSE [raised |-> TRUE, urls |-> <<>>]

\* one attempt short of the budget
Mut_DdgContinue(attempt) == attempt + 1 < ddg_tries

\* for attempt in range(1, tries + 1) of _ddg_search
DdgContinue(attempt) == attempt < ddg_tries

\* a Google loop that gives up after its first failure
Mut_HasBackoff(attempt) == FALSE

\* for attempt, backoff in enumerate(BACKOFFS + [None], start=1):
\* backoff is not None
HasBackoff(attempt) == attempt <= Len(BACKOFFS)

\* `except RuntimeError` in place of `except Exception`
Mut_SearchExceptionCaught(status) == status = "RuntimeError"

\* `except Exception` around get_candidates in search_and_filter
SearchExceptionCaught(status) == status \in {"RuntimeError", "raw"}

\* the loop condition without its safety cap
Mut_WhileCondNoCap(q, n, cfg) == Len(q) < cfg.target_count

\* the loop condition without its target test
Mut_WhileCond(q, n, cfg) == n <= MAX_RESULTS_CAP

\* while len(qualifying) < config.target_count and num_results <= MAX_RESULTS_CAP
WhileCond(q, n, cfg) == Len(q) < cfg.target_count /\ n <= MAX_RESULTS_CAP

\* a page size that never grows
Mut_NextNumResults(n, cfg) == n

\* num_results += config.results_per_page
NextNumResults(n, cfg) == n + cfg.results_per_page

\* the seen test dropped
Mut_IsSeen(url, s) == FALSE

\* if url in seen
IsSeen(url, s) == url \in s

\* the new URL put in front of the accumulator
Mut_AppendQualifying(q, url) == <<url>> \o q

\* qualifying.append(url)
AppendQualifying(q, url) == Append(q, url)

\* if occurrences >= min_occurrences
Qualifies(occurrences, m) == occurrences >= m

\* only the retryable statuses retried, network errors given up at once
Mut_PageRetryable(kind) == kind = "retry_status"

\* status in RETRY_STATUS, and the except clause of Timeout, ConnectionError,
\* ChunkedEncodingError
PageRetryable(kind) ==
    kind \in {"retry_status", "timeout", "connection_error"}

\* a retry allowed on the last pass of the loop as well
Mut_PageContinue(attempt) == attempt <= page_tries

\* if attempt < tries
PageContinue(attempt) == attempt < page_tries

\* a backoff that stays at its base
Mut_NextBackoff(b) == b

\* backoff *= 2
NextBackoff(b) == b * 2

\* UnicodeDecodeError left out of the except clause
Mut_PageCaught(kind) == kind = "http_error"

\* except (HTTPError, RequestException, UnicodeDecodeError)
PageCaught(kind) == kind \in {"http_error", "decode_error"}

----------------------------------------------------------------------------
(* get_candidates *)

\* the backends in the order get_candidates tries them, and which of them the
\* environment enables
Chain == <<"serpapi", "ddg", "google">>

Enabled(b) ==
    CASE b = "serpapi" -> env.serpapi
      [] b = "ddg" -> env.ddg
      [] b = "google" -> ~env.disable_google

EnabledChain == SelectSeq(Chain, Enabled)

\* the frame after one more call of backend b with outcome o; rl tells whether
\* every call of the first enabled backend was rate-limited so far
Attempt(g, b, o) ==
    [g EXCEPT !.calls[b] = @ + 1,
              !.rl = IF b = EnabledChain[1] THEN @ /\ o.kind = "ratelimit" ELSE @,
              !.last = [backend |-> b, kind |-> o.kind, urls |-> o.urls]]

\* return sa / return ddg / return g: the for loop of search_and_filter starts
GcReturn(g, list) ==
    /\ gc' = [g EXCEPT !.status = "returned"]
    /\ candidates' = list
    /\ idx' = 1
    /\ pc' = "for"
    /\ rich' = (rich /\ Cardinality(Range(list)) > config.target_count)
    /\ UNCHANGED <<result, raised>>

\* an exception leaves get_candidates: search_and_filter prints it, breaks out
\* of the while loop and returns qualifying[:config.target_count]
GcRaise(g, status) ==
    /\ gc' = [g EXCEPT !.status = status]
    /\ IF SearchExceptionCaught(status)
       THEN /\ pc' = "done"
            /\ result' = PyPrefix(qualifying, config.target_count)
            /\ raised' = "none"
       ELSE /\ pc' = "raised"
            /\ raised' = "search"
            /\ result' = result
    /\ UNCHANGED <<candidates, idx, rich>>

\* _sleep_with_jitter(backoff); backoff *= 2 at the end of a failed pass of
\* the loop of _ddg_search (slept keeps the base delays of the call)
DdgSleep(g) == [g EXCEPT !.slept = Append(@, g.backoff), !.backoff = @ * 2]

\* _sleep_with_jitter(backoff) of the Google loop after its failed attempt,
\* where backoff is the entry of BACKOFFS + [None] for that attempt
GoogleSleep(g) ==
    [g EXCEPT !.slept = Append(@, BACKOFFS[g.calls["google"]])]

GcNext(g, next) ==
    /\ gc' = g
    /\ pc' = next
    /\ UNCHANGED <<candidates, idx, rich, result, raised>>

ResolverFrame == <<config, min_occurrences, env, seen, qualifying, num_results,
                   rounds, cp, qualifyCalls, errored, cancel, unthrottled>>

SerpapiSearch ==
    /\ pc = "serpapi"
    /\ UNCHANGED ResolverFrame
    /\ IF ~env.serpapi
       THEN GcNext(gc, "ddg")
       ELSE \E o \in SearchOutcomes :
              LET g == Attempt(gc, "serpapi", o)
                  sa == serpapi_search(o)
              IN  IF sa.raised THEN GcRaise(g, "raw")
                  ELSE IF Truthy(sa.urls) THEN GcReturn(g, sa.urls)
                  ELSE GcNext(g, "ddg")

DdgSearch ==
    /\ pc = "ddg"
    /\ UNCHANGED ResolverFrame
    /\ IF ~env.ddg
       THEN GcNext(gc, "google")
       ELSE \E o \in BroadCaughtOutcomes :
              LET g == Attempt(gc, "ddg", o)
              IN  IF Truthy(o.urls) THEN GcReturn(g, o.urls)
                  ELSE IF DdgContinue(g.calls["ddg"])
                  THEN GcNext(DdgSleep(g), "ddg")
                  ELSE GcNext(DdgSleep(g), "google")

GoogleSearch ==
    /\ pc = "google"
    /\ UNCHANGED ResolverFrame
    /\ IF env.disable_google
       THEN GcRaise(gc, "RuntimeError")
       ELSE \E o \in BroadCaughtOutcomes :
              LET g == Attempt(gc, "google", o)
              IN  IF Truthy(o.urls) THEN GcReturn(g, o.urls)
                  ELSE IF HasBackoff(g.calls["google"])
                  THEN GcNext(GoogleSleep(g), "google")
                  ELSE GcRaise(g, "RuntimeError")

----------------------------------------------------------------------------
(* search_and_filter *)

\* a throttle sleep that leaves the last call unthrottled
Mut_Slept(u) == u

\* unthrottled names the last call made to the outside with no
\* _sleep_with_jitter(config.sleep_sec) after it yet: "search" for
\* get_candidates, "page" for count_pattern_on_page, "none" once time.sleep of
\* _sleep_with_jitter has returned
Slept(u) == "none"

\* _sleep_with_jitter(config.sleep_sec): goes on at `next`, or ValueError
Throttle(next) ==
    \E d \in SleepWithJitter(config.sleep_sec) :
        IF d < 0
        THEN pc' = "raised" /\ raised' = "sleep" /\ unthrottled' = unthrottled
        ELSE pc' = next /\ raised' = raised /\ unthrottled' = Slept(unthrottled)

WhileTest ==
    /\ pc = "while"
    /\ IF WhileCond(qualifying, num_results, config)
       THEN /\ rounds < MaxRounds
            /\ rounds' = rounds + 1
            /\ gc' = [GcIdle EXCEPT !.status = "running",
                                    !.num_results = num_results]
            /\ pc' = "serpapi"
            /\ unthrottled' = "search"
            /\ UNCHANGED result
       ELSE /\ pc' = "done"
            /\ result' = PyPrefix(qualifying, config.target_count)
            /\ UNCHANGED <<rounds, gc, unthrottled>>
    /\ UNCHANGED <<config, min_occurrences, env, seen, qualifying, num_results,
                   candidates, idx, raised, cp, qualifyCalls, errored, rich,
                   cancel>>

ForNext ==
    /\ pc = "for"
    /\ gc' = GcIdle
    /\ UNCHANGED <<config, min_occurrences, env, qualifying, candidates, result,
                   rounds, errored, rich, cancel>>
    /\ IF idx > Len(candidates) \/ Len(qualifying) >= config.target_count
       THEN \* the for loop is over: next page, throttle
            /\ num_results' = NextNumResults(num_results, config)
            /\ Throttle("while")
            /\ cp' = CpIdle
            /\ UNCHANGED <<seen, idx, qualifyCalls>>
       ELSE LET url == candidates[idx]
            IN  IF IsSeen(url, seen)
                THEN /\ idx' = idx + 1
                     /\ cp' = CpIdle
                     /\ UNCHANGED <<pc, raised, seen, num_results, qualifyCalls,
                                    unthrottled>>
                ELSE /\ seen' = seen \cup {url}
                     /\ cp' = [CpIdle EXCEPT !.status = "running", !.url = url,
                                             !.backoff = page_backoff]
                     /\ qualifyCalls' = [qualifyCalls EXCEPT ![url] = @ + 1]
                     /\ pc' = "fetch"
                     /\ unthrottled' = "page"
                     /\ UNCHANGED <<raised, idx, num_results>>

----------------------------------------------------------------------------
(* count_pattern_on_page, and the rest of the loop body once it returns *)

CpReturn(f, occurrences) ==
    /\ cp' = [f EXCEPT !.status = "returned", !.ret = occurrences]
    /\ errored' = IF f.last # "ok" THEN errored \cup {f.url} ELSE errored
    /\ rich' = rich
    /\ qualifying' = IF Qualifies(occurrences, min_occurrences)
                     THEN AppendQualifying(qualifying, f.url)
                     ELSE qualifying
    /\ \E d \in SleepWithJitter(config.sleep_sec) :
          IF d < 0
          THEN /\ pc' = "raised" /\ raised' = "sleep" /\ idx' = idx
               /\ unthrottled' = unthrottled
          ELSE /\ pc' = "for" /\ raised' = raised /\ idx' = idx + 1
               /\ unthrottled' = Slept(unthrottled)

\* what one pass of the try block does to the outside, in its order:
\* time.sleep(PER_HOST_DELAY), then requests.get
PassLog == <<[ev |-> "sleep", sec |-> PER_HOST_DELAY], [ev |-> "get", sec |-> 0]>>

Fetch ==
    /\ pc = "fetch"
    /\ UNCHANGED <<config, min_occurrences, env, seen, num_results, candidates,
                   result, rounds, gc, qualifyCalls, cancel>>
    /\ \E o \in FetchOutcomes :
          LET f == [cp EXCEPT !.attempt = @ + 1,
                              !.log = @ \o PassLog,
                              !.last = o.kind,
                              !.same = IF cp.attempt = 0 \/ @ = o.kind
                                       THEN o.kind ELSE "mixed"]
          IN  IF o.kind = "ok" THEN CpReturn(f, o.count)
              ELSE IF PageRetryable(o.kind)
              THEN IF PageContinue(f.attempt)
                   THEN /\ cp' = [f EXCEPT !.slept = Append(@, f.backoff),
                                           !.log = Append(@, [ev |-> "backoff",
                                                              sec |-> f.backoff]),
                                           !.backoff = NextBackoff(@)]
                        /\ UNCHANGED <<pc, raised, idx, qualifying, errored, rich,
                                       unthrottled>>
                   ELSE CpReturn(f, 0)
              ELSE IF PageCaught(o.kind) THEN CpReturn(f, 0)
              ELSE /\ cp' = [f EXCEPT !.status = "raised"]
                   /\ pc' = "raised"
                   /\ raised' = "page"
                   /\ UNCHANGED <<idx, qualifying, errored, rich, unthrottled>>

----------------------------------------------------------------------------

Next ==
    \/ WhileTest
    \/ SerpapiSearch
    \/ DdgSearch
    \/ GoogleSearch
    \/ ForNext
    \/ Fetch

Spec == Init /\ [][Next]_vars

\* A cancellation request arrives from outside while search_and_filter runs.
\* No statement of the program reads it: search_and_filter has no parameter,
\* flag or deadline for it, so every action above leaves cancel alone.
Cancel ==
    /\ pc \notin {"done", "raised"}
    /\ ~cancel
    /\ cancel' = TRUE
    /\ UNCHANGED <<config, min_occurrences, env, pc, seen, qualifying,
                   num_results, candidates, idx, result, raised, rounds, gc, cp,
                   qualifyCalls, errored, rich, unthrottled>>

\* the invariants the data model of the specification puts on a SearchConfig
ValidConfig ==
    /\ config.target_count > 0
    /\ config.results_per_page > 0
    /\ config.sleep_sec >= 0

\* The runs on a config the data model allows. search_and_filter is one
\* thread of control that keeps running: a step that can be taken is taken.
FairInit == Init /\ ValidConfig

FairSpec == FairInit /\ [][Next]_vars /\ WF_vars(Next)

SpecCancel == Init /\ [][Next \/ Cancel]_vars

----------------------------------------------------------------------------
(* Properties *)

NoDup(s) == \A i, j \in 1..Len(s) : s[i] = s[j] => i = j

RECURSIVE Dedup(_)
\* s without the later occurrences of its elements
Dedup(s) ==
    IF s = <<>> THEN <<>>
    ELSE LET d == Dedup(SubSeq(s, 1, Len(s) - 1))
         IN  IF s[Len(s)] \in Range(d) THEN d ELSE Append(d, s[Len(s)])

\* the first n distinct elements of s, in the order of s
FirstDistinct(s, n) == SubSeq(Dedup(s), 1, Min(Max(n, 0), Len(Dedup(s))))

\* the number of calls get_candidates gives a backend that never delivers
Budget(b) ==
    CASE b = "serpapi" -> 1
      [] b = "ddg" -> ddg_tries
      [] b = "google" -> Len(BACKOFFS) + 1

SearchFailed == gc.status \in {"RuntimeError", "raw"}

\* every page evaluated so far qualified, every list returned so far held more
\* distinct URLs than target_count, and the resolver did not fail
StubbedRun == pc = "done" /\ ~SearchFailed /\ rich /\ seen = Range(qualifying)

\* C1: the list search_and_filter returns is never longer than
\* config.target_count, whatever the config
C1_LengthAtMostTarget == pc = "done" => Len(result) <= config.target_count

\* C2: no URL is twice in the returned list and count_pattern_on_page is
\* called at most once for a URL within one run
C2_NoDuplicateEvaluation ==
    /\ NoDup(qualifying)
    /\ NoDup(result)
    /\ \A u \in URLS : qualifyCalls[u] <= 1

\* a second round returned <<1, 2>> after URL 1 had qualified in the first:
\* URL 1 was skipped as seen and is once in the result
C2_Witness ==
    pc = "done" /\ rounds = 2 /\ candidates = <<1, 2>> /\ result = <<1, 2>>

\* C3 as stated: with a qualifier that always qualifies and a resolver whose
\* lists hold more distinct URLs than target_count, the run makes exactly one
\* get_candidates call and returns exactly target_count URLs, the first
\* target_count distinct candidates in order (stated for the configs the data
\* model allows, where it already fails)
C3_Original ==
    (ValidConfig /\ StubbedRun) =>
        /\ rounds = 1
        /\ Len(result) = config.target_count
        /\ result = FirstDistinct(candidates, config.target_count)

\* C3 amended: under the same stubs a run that returns has made one
\* get_candidates call when the while condition holds at the start
\* (target_count > 0 and results_per_page <= MAX_RESULTS_CAP) and none
\* otherwise, and it returns the first target_count distinct candidates of that
\* call in order: max(target_count, 0) URLs after a call, none without
C3_OneRound ==
    StubbedRun =>
        IF config.target_count > 0 /\ config.results_per_page <= MAX_RESULTS_CAP
        THEN /\ rounds = 1
             /\ Len(result) = config.target_count
             /\ result = FirstDistinct(candidates, config.target_count)
        ELSE /\ rounds = 0
             /\ result = <<>>

\* one round, two distinct candidates, target 1: the first one is the result
C3_Witness ==
    /\ StubbedRun
    /\ config.target_count = 1
    /\ rounds = 1
    /\ Len(candidates) = 2
    /\ candidates[1] # candidates[2]
    /\ result = <<candidates[1]>>

\* C4: when get_candidates fails the run ends without raising and returns
\* what had qualified before; when the first call fails that is the empty
\* list, and no page was fetched
C4_SoftStop ==
    SearchFailed =>
        /\ pc = "done"
        /\ raised = "none"
        /\ result = qualifying
        /\ rounds = 1 => (result = <<>> /\ \A u \in URLS : qualifyCalls[u] = 0)

\* the resolver failed in the second round, after one URL had qualified
C4_Witness ==
    SearchFailed /\ pc = "done" /\ rounds = 2 /\ Len(result) = 1

\* C5: when the first enabled backend was rate-limited on every call, the
\* next enabled backend is called only after the first had its whole budget
\* of calls, and a non-empty list from it is what get_candidates returns
C5_Fallback ==
    (Len(EnabledChain) >= 2 /\ gc.rl /\ gc.calls[EnabledChain[2]] > 0) =>
        /\ gc.calls[EnabledChain[1]] = Budget(EnabledChain[1])
        /\ (gc.last.backend = EnabledChain[2] /\ gc.last.kind = "urls") =>
               (gc.status = "returned" /\ candidates = gc.last.urls)

\* DuckDuckGo rate-limited on its three calls, then Google delivered two URLs
C5_Witness ==
    /\ EnabledChain = <<"ddg", "google">>
    /\ gc.rl
    /\ gc.calls["ddg"] = ddg_tries
    /\ gc.status = "returned"
    /\ gc.last.backend = "google"
    /\ Len(candidates) = 2
    /\ candidates = gc.last.urls

\* C6: the first non-empty list a backend delivers is returned as it is, at
\* once: no backend later in the chain is called in that get_candidates call
C6_FirstSuccessWins ==
    /\ gc.last.kind = "urls" =>
           (gc.status = "returned" /\ candidates = gc.last.urls)
    /\ gc.status = "returned" =>
           /\ gc.last.kind = "urls"
           /\ \A i, j \in 1..Len(Chain) :
                  (Chain[i] = gc.last.backend /\ i < j) => gc.calls[Chain[j]] = 0

\* SerpAPI delivered while DuckDuckGo and Google were both enabled
C6_Witness ==
    /\ EnabledChain = Chain
    /\ gc.status = "returned"
    /\ gc.last.backend = "serpapi"
    /\ Len(candidates) = 2

\* C7: get_candidates fails only with "No search backend returned results",
\* after every enabled backend was called and none delivered a list (stated
\* for the configs the data model allows)
C7_FailsOnlyWhenExhausted ==
    (ValidConfig /\ SearchFailed) =>
        /\ gc.status = "RuntimeError"
        /\ gc.last.kind # "urls"
        /\ \A b \in Backends : Enabled(b) => gc.calls[b] >= 1

\* C8: a page whose every fetch timed out makes count_pattern_on_page return 0
\* without raising, after exactly page_tries fetches
C8_TimeoutBudget ==
    cp.same = "timeout" =>
        /\ cp.status \in {"running", "returned"}
        /\ cp.status = "running" => cp.attempt < page_tries
        /\ cp.status = "returned" => (cp.attempt = page_tries /\ cp.ret = 0)

\* three timeouts in a row, and the loop went on
C8_Witness ==
    /\ cp.status = "returned"
    /\ cp.same = "timeout"
    /\ cp.attempt = 3
    /\ cp.ret = 0
    /\ pc = "for"

\* C9: a URL whose fetch ended in an error is never in the accumulator nor in
\* the returned list, whatever min_occurrences is (stated for the configs the
\* data model allows)
C9_ErrorsNeverQualify ==
    ValidConfig =>
        \A u \in errored : u \notin Range(qualifying) /\ u \notin Range(result)

\* C10: no failure of one page makes search_and_filter raise: the run goes on
\* with the next candidate (stated for the configs the data model allows)
C10_NeverRaisesForBadPage ==
    ValidConfig => (raised # "page" /\ cp.status # "raised")

C12_RejectedEagerly ==
    ~ValidConfig => (rounds = 0 /\ \A u \in URLS : qualifyCalls[u] = 0)

\* C13: once a cancellation request is raised, no further resolver call and
\* no further page qualification is started (stated for the configs the data
\* model allows)
C13_CancelStopsRun ==
    [][(ValidConfig /\ cancel) =>
           (rounds' = rounds /\ qualifyCalls' = qualifyCalls)]_vars

\* the place of backend b in the order get_candidates tries the backends
ChainPos(b) == CHOOSE i \in 1..Len(Chain) : Chain[i] = b

\* get_candidates has left backend b for a later one and has passed only
\* backends that are switched off on its way
MovedOnFrom(b) ==
    /\ pc \in Backends
    /\ ChainPos(pc) > ChainPos(b)
    /\ \A c \in Backends :
          (ChainPos(b) < ChainPos(c) /\ ChainPos(c) < ChainPos(pc)) => ~Enabled(c)

C15_GoogleBudget ==
    (ValidConfig /\ EnabledChain = <<"google">> /\ gc.rl
        /\ gc.status \in {"running", "RuntimeError"}) =>
        /\ gc.calls["google"] <= Len(BACKOFFS)
        /\ Len(gc.slept) = gc.calls["google"]
        /\ gc.slept = SubSeq(BACKOFFS, 1, Len(gc.slept))

\* C16 as the spec states it: after a timeout, a connection failure or a
\* decode failure count_pattern_on_page has made exactly one fetch and has
\* returned 0
C16_Original ==
    (ValidConfig /\ cp.same \in {"timeout", "connection_error", "decode_error"}) =>
        (cp.status = "returned" /\ cp.attempt = 1 /\ cp.ret = 0)

\* C16, amended: an HTTPError, another RequestException or a decode failure
\* makes count_pattern_on_page return 0 at once, with no fetch after it; a
\* Timeout, ConnectionError or ChunkedEncodingError is retried after a
\* backoff sleep while attempts are left and gives 0 only on the last attempt
C16_OnlyPermanentErrorsReturnAtOnce ==
    /\ cp.last \in {"http_error", "decode_error"} =>
          /\ cp.status = "returned"
          /\ cp.ret = 0
          /\ Len(cp.slept) = cp.attempt - 1
    /\ cp.last \in {"timeout", "connection_error"} =>
          IF cp.attempt < page_tries
          THEN cp.status = "running" /\ Len(cp.slept) = cp.attempt
          ELSE /\ cp.status = "returned"
               /\ cp.ret = 0
               /\ cp.attempt = page_tries
               /\ Len(cp.slept) = page_tries - 1

\* a timeout was retried after one sleep, and the decode failure of the
\* second fetch ended the call
C16_Witness ==
    /\ cp.status = "returned"
    /\ cp.attempt = 2
    /\ cp.last = "decode_error"
    /\ cp.same = "mixed"
    /\ cp.slept = <<page_backoff>>
    /\ cp.ret = 0

\* C17: a retryable status on every fetch is retried after sleeps of base
\* page_backoff and twice that, up to page_tries fetches, with no sleep after
\* the last one, and count_pattern_on_page then returns 0; a permanent error
\* status on the first fetch gives 0 after that single fetch
C17_RetryStatusBackoff ==
    /\ cp.same = "retry_status" =>
          /\ cp.slept = SubSeq(<<page_backoff, 2 * page_backoff>>, 1, Len(cp.slept))
          /\ IF cp.attempt < page_tries
             THEN cp.status = "running" /\ Len(cp.slept) = cp.attempt
             ELSE /\ cp.status = "returned"
                  /\ cp.ret = 0
                  /\ cp.attempt = page_tries
                  /\ Len(cp.slept) = page_tries - 1
    /\ cp.same = "http_error" =>
          /\ cp.status = "returned"
          /\ cp.attempt = 1
          /\ cp.ret = 0
          /\ cp.slept = <<>>

\* three fetches with a retryable status, slept 3 and 6 between them,
\* returned 0
C17_Witness ==
    /\ cp.same = "retry_status"
    /\ cp.status = "returned"
    /\ cp.attempt = page_tries
    /\ cp.slept = <<3, 6>>
    /\ cp.ret = 0

\* C18: a run ends only by returning, for one of three reasons (the
\* accumulator reached target_count, num_results went over MAX_RESULTS_CAP, or
\* get_candidates failed), and returns the accumulator cut to target_count;
\* with the accumulator at target_count no page is being evaluated and no
\* backend is being called (stated for the configs the data model allows)
C18_ThreeStops ==
    ValidConfig =>
        /\ pc # "raised"
        /\ pc = "done" =>
              /\ result = PyPrefix(qualifying, config.target_count)
              /\ \/ Len(qualifying) >= config.target_count
                 \/ num_results > MAX_RESULTS_CAP
                 \/ SearchFailed
        /\ Len(qualifying) >= config.target_count =>
              pc \notin {"fetch", "serpapi", "ddg", "google"}

\* C19: the k-th get_candidates call of a run asks for k times
\* config.results_per_page candidates, and never for more than MAX_RESULTS_CAP
C19_PaginationSchedule ==
    gc.status # "idle" =>
        /\ gc.num_results = rounds * config.results_per_page
        /\ gc.num_results <= MAX_RESULTS_CAP

\* the second call of a run asks for 1000 candidates, the cap itself
C19_Witness ==
    /\ rounds = 2
    /\ gc.status = "running"
    /\ config.results_per_page = 500
    /\ gc.num_results = MAX_RESULTS_CAP

\* C20: for a config the data model allows, search_and_filter makes at most
\* floor(MAX_RESULTS_CAP / results_per_page) rounds, and in every behaviour in
\* which no page fetch ends in an exception that count_pattern_on_page does
\* not catch (each call returns or times out) it eventually returns
C20_Terminates ==
    /\ [](ValidConfig =>
             rounds <= MAX_RESULTS_CAP \div config.results_per_page)
    /\ ValidConfig => <>(pc = "done" \/ cp.last = "uncaught")

\* a run that used every round the cap allows and then returned
C20_Witness ==
    /\ ValidConfig
    /\ pc = "done"
    /\ rounds = 2
    /\ rounds = MAX_RESULTS_CAP \div config.results_per_page
    /\ num_results > MAX_RESULTS_CAP

\* C21: a page qualification is never started while the one before it has had
\* no sleep of config.sleep_sec plus jitter after it, and get_candidates is
\* never called while the page qualification or the get_candidates call
\* before it has had none
C21_Throttled ==
    [][ /\ qualifyCalls' # qualifyCalls => unthrottled # "page"
        /\ rounds' # rounds => unthrottled = "none"
      ]_vars

\* the second page of a round is about to be fetched and the second round's
\* get_candidates call was made before: both kinds of gap were passed with
\* their sleep
C21_Witness ==
    /\ rounds = 2
    /\ pc = "fetch"
    /\ unthrottled = "page"
    /\ \E u \in URLS : qualifyCalls[u] = 1 /\ u # cp.url

\* the number of requests.get calls in the log of a count_pattern_on_page call
Gets(log) == Cardinality({i \in 1..Len(log) : log[i].ev = "get"})

\* C22: one count_pattern_on_page call makes at least 1 and at most
\* page_tries fetches, sleeps PER_HOST_DELAY right before each of them, and
\* for every sequence of outcomes its except clauses know it ends by returning
\* a count: it never stays in the loop with the attempts used up, and it is
\* left by an exception only for an outcome outside those the claim lists
C22_FetchBudgetAndDelay ==
    /\ cp.attempt <= page_tries
    /\ Gets(cp.log) = cp.attempt
    /\ \A i \in 1..Len(cp.log) :
          cp.log[i].ev = "get" =>
              (i > 1 /\ cp.log[i - 1] = [ev |-> "sleep", sec |-> PER_HOST_DELAY])
    /\ cp.status = "returned" => (cp.attempt >= 1 /\ cp.ret \in Nat)
    /\ cp.status = "running" => cp.attempt < page_tries
    /\ cp.status = "raised" => cp.last = "uncaught"

\* a retryable status, then a timeout, then a page with matches: three
\* fetches, each after its delay, and a count returned
C22_Witness ==
    /\ cp.status = "returned"
    /\ cp.attempt = page_tries
    /\ cp.same = "mixed"
    /\ cp.last = "ok"
    /\ cp.ret = 2
    /\ Len(cp.log) = 8

====
